---- MODULE Spec2Model ----
(***************************************************************************)
(* ElectroVault inventory manager (app.py): the JSON-backed inventory      *)
(* store, the session state of the Streamlit script and its handlers.      *)
(*                                                                         *)
(* Text is a sequence of one-character strings, so that substring and      *)
(* pattern search can be computed.  A decimal number is an integer count   *)
(* of 1/Scale units (price, item_value and every JSON number); qty in the  *)
(* session DataFrame is a whole integer, as astype(int) leaves it.         *)
(* A DataFrame is [cols, rows]: its column set and its rows in order,      *)
(* each row a function from cols to the cell values.                       *)
(***************************************************************************)
EXTENDS Integers, Sequences, FiniteSets, TLC

VARIABLES
    file,                  \* content of DATA_FILE
    inventory,             \* st.session_state.inventory
    current_view,          \* st.session_state.current_view
    show_add_item_dialog,  \* st.session_state.show_add_item_dialog
    now,                   \* int(time.time() * 1000)
    message,               \* what the last handler showed (st.error/success/toast)
    search_term,           \* the Search text input of the Inventory view
    df_display,            \* the filtered frame the Inventory view renders
    render_error           \* the render pass ended in an uncaught exception

vars == <<file, inventory, current_view, show_add_item_dialog, now, message,
          search_term, df_display, render_error>>

----------------------------------------------------------------------------
(* Bounds of the model *)

Scale == 10          \* units per 1.0 of a decimal number
T0 == 10             \* the clock's millisecond value when the model starts
MaxTicks == 1        \* the clock advances at most this many milliseconds
MaxRows == 5         \* the add form is offered while the store is shorter
MaxFileObjs == 1     \* objects in a backing file written outside the app
MaxQueryLen == 2     \* characters in a search term

----------------------------------------------------------------------------
(* JSON values of the numeric fields *)

Num(v) == [t |-> "num", v |-> v]         \* a JSON number, v/Scale
NumStr(v) == [t |-> "numstr", v |-> v]   \* a JSON string that spells a number
BadStr == [t |-> "str", v |-> 0]         \* a JSON string that spells no number
NaN == [t |-> "nan", v |-> 0]            \* NaN / null / missing

\* pd.to_numeric(x, errors='coerce') on one cell
to_numeric(x) == IF x.t \in {"num", "numstr"} THEN Num(x.v) ELSE NaN

\* .fillna(d) on one cell
fillna(x, d) == IF x.t = "nan" THEN Num(d) ELSE x

\* astype(int) rounding down instead of toward zero
astype_int_floor(x) == x.v \div Scale

\* .astype(int) on one float cell: truncation toward zero
astype_int(x) == IF x.v >= 0 THEN x.v \div Scale ELSE -((-x.v) \div Scale)

----------------------------------------------------------------------------
(* DataFrames *)

RecordCols == {"id", "name", "category", "price", "qty"}

\* pd.DataFrame(columns=["id", "name", "category", "price", "qty"])
EmptyFrame == [cols |-> RecordCols, rows |-> <<>>]

\* 'inventory' not in st.session_state
NoFrame == [cols |-> {}, rows |-> <<>>]

Row(id, name, category, price, qty) ==
    [id |-> id, name |-> name, category |-> category, price |-> price, qty |-> qty]

GPU == <<"G", "P", "U">>
CPU == <<"C", "P", "U">>
Mobile == <<"M", "o", "b", "i", "l", "e">>
Laptop == <<"L", "a", "p", "t", "o", "p">>
Accessory == <<"A", "c", "c", "e", "s", "s", "o", "r", "y">>
Other == <<"O", "t", "h", "e", "r">>

default_data == <<
    Row(1, <<"G","e","F","o","r","c","e"," ","R","T","X"," ","4","0","9","0">>,
        GPU, 109990 * Scale, 3),
    Row(2, <<"M","a","c","B","o","o","k"," ","P","r","o"," ","M","2">>,
        Laptop, 84990 * Scale, 8),
    Row(3, <<"S","a","m","s","u","n","g"," ","S","2","4"," ","U","l","t","r","a">>,
        Mobile, 75990 * Scale, 12),
    Row(4, <<"S","o","n","y"," ","W","H","-","1","0","0","0","X","M","5">>,
        Accessory, 18999 * Scale, 25) >>

\* the union of the keys of a list of dicts: the columns pd.DataFrame gives it
KeysOf(objs) == UNION {DOMAIN objs[i] : i \in 1..Len(objs)}

\* a row widened to cols, NaN in the cells it has no value for
Pad(row, cols) == [c \in cols |-> IF c \in DOMAIN row THEN row[c] ELSE NaN]

\* pd.DataFrame(data) for a list of dicts
DataFrame(objs) ==
    [cols |-> KeysOf(objs),
     rows |-> [i \in 1..Len(objs) |-> Pad(objs[i], KeysOf(objs))]]

\* pd.concat([a, b], ignore_index=True)
concat(a, b) ==
    LET cols == a.cols \cup b.cols
    IN  [cols |-> cols,
         rows |-> [i \in 1..Len(a.rows) |-> Pad(a.rows[i], cols)]
                  \o [i \in 1..Len(b.rows) |-> Pad(b.rows[i], cols)]]

----------------------------------------------------------------------------
(* The backing file *)

Absent == [kind |-> "absent", objs |-> <<>>]      \* os.path.exists is False
Invalid == [kind |-> "invalid", objs |-> <<>>]    \* unreadable or not JSON
JsonArray(objs) == [kind |-> "list", objs |-> objs]      \* [ {..}, {..} ]
JsonColumns(objs) == [kind |-> "columns", objs |-> objs] \* { "id": [..], .. }

\* the try block of load_data: what it returns, or that it raised
TryLoad(f) ==
    IF f.kind = "invalid"
    THEN [raised |-> TRUE, df |-> NoFrame]                  \* open / json.load
    ELSE LET df == DataFrame(f.objs)
         IN  IF ~({"price", "qty"} \subseteq df.cols)
             THEN [raised |-> TRUE, df |-> NoFrame]         \* KeyError
             ELSE [raised |-> FALSE,
                   df |-> [cols |-> df.cols,
                           rows |-> [i \in 1..Len(df.rows) |->
                              [c \in df.cols |->
                                 CASE c = "price" ->
                                        fillna(to_numeric(df.rows[i][c]), 0).v
                                   [] c = "qty" ->
                                        astype_int(fillna(to_numeric(df.rows[i][c]), 0))
                                   [] OTHER -> df.rows[i][c]]]]]

\* load_data seeding the defaults whenever nothing could be loaded
load_data_defaults_on_error(f) ==
    IF f.kind = "absent" \/ TryLoad(f).raised
    THEN [df |-> [cols |-> RecordCols, rows |-> default_data], error |-> FALSE]
    ELSE [df |-> TryLoad(f).df, error |-> FALSE]

\* load_data whose except branch returns pd.DataFrame() and shows nothing
load_data_silent(f) ==
    IF f.kind = "absent"
    THEN [df |-> [cols |-> RecordCols, rows |-> default_data], error |-> FALSE]
    ELSE [df |-> TryLoad(f).df, error |-> FALSE]

load_data(f) ==
    IF f.kind = "absent"
    THEN [df |-> [cols |-> RecordCols, rows |-> default_data], error |-> FALSE]
    ELSE LET t == TryLoad(f)
         IN  IF t.raised
             THEN [df |-> EmptyFrame, error |-> TRUE]
             ELSE [df |-> t.df, error |-> FALSE]

\* df.to_dict(orient="records") and json.dump
save_data(df) ==
    JsonArray([i \in 1..Len(df.rows) |->
        [c \in df.cols |->
            CASE c = "price" -> Num(df.rows[i][c])
              [] c = "qty" -> Num(df.rows[i][c] * Scale)
              [] OTHER -> df.rows[i][c]]])

----------------------------------------------------------------------------
(* Filter Logic of the Inventory view *)

UpperCase == <<"A","B","C","D","E","F","G","H","I","J","K","L","M",
               "N","O","P","Q","R","S","T","U","V","W","X","Y","Z">>
LowerCase == <<"a","b","c","d","e","f","g","h","i","j","k","l","m",
               "n","o","p","q","r","s","t","u","v","w","x","y","z">>

\* one character under case=False
Lower(c) ==
    IF \E i \in 1..Len(UpperCase) : UpperCase[i] = c
    THEN LowerCase[CHOOSE i \in 1..Len(UpperCase) : UpperCase[i] = c]
    ELSE c

\* the characters a search term is typed from: letters, and the characters
\* '.', '*', '(' and '[', which re.compile reads as pattern syntax
SearchAlphabet == {"g", "P", ".", "*", "(", "["}

\* re.compile(pat) raises re.error: an unterminated group or set, a '*' with
\* nothing to repeat, or a repeated '*'
CompileError(pat) ==
    \E i \in 1..Len(pat) :
        \/ pat[i] \in {"(", "["}
        \/ pat[i] = "*" /\ (i = 1 \/ pat[i - 1] = "*")

\* one pattern character against one text character, re.IGNORECASE
CharMatch(pc, c) == pc = "." \/ Lower(pc) = Lower(c)

RECURSIVE MatchHere(_, _)
\* the compiled pattern pat matches a prefix of text
MatchHere(pat, text) ==
    IF pat = <<>> THEN TRUE
    ELSE IF Len(pat) >= 2 /\ pat[2] = "*"
    THEN \E k \in 0..Len(text) :
            /\ \A j \in 1..k : CharMatch(pat[1], text[j])
            /\ MatchHere(SubSeq(pat, 3, Len(pat)), SubSeq(text, k + 1, Len(text)))
    ELSE /\ text # <<>>
         /\ CharMatch(pat[1], text[1])
         /\ MatchHere(Tail(pat), Tail(text))

\* Series.str.contains(pat, case=False, na=False) on one cell: re.search
str_contains(text, pat) ==
    \E s \in 1..(Len(text) + 1) : MatchHere(pat, SubSeq(text, s, Len(text)))

RECURSIVE SelectRows(_, _)
\* df[mask]: the rows whose name or category matches, in their order
SelectRows(rows, pat) ==
    IF rows = <<>> THEN <<>>
    ELSE LET r == Head(rows)
             rest == SelectRows(Tail(rows), pat)
         IN  IF str_contains(r["name"], pat) \/ str_contains(r["category"], pat)
             THEN <<r>> \o rest
             ELSE rest

\* lines 303-308: df_display, or the exception str.contains raises
filter_logic(df, term) ==
    IF term = <<>>
    THEN [raised |-> FALSE, df |-> df]
    ELSE IF CompileError(term)
    THEN [raised |-> TRUE, df |-> NoFrame]
    ELSE [raised |-> FALSE, df |-> [cols |-> df.cols, rows |-> SelectRows(df.rows, term)]]

----------------------------------------------------------------------------
(* One render pass of the views (lines 291-446) *)

\* df['item_value'] = df['price'] * df['qty'] on the session's own frame
with_item_value(df) ==
    [cols |-> df.cols \cup {"item_value"},
     rows |-> [i \in 1..Len(df.rows) |->
        [c \in df.cols \cup {"item_value"} |->
            IF c = "item_value"
            THEN Num(df.rows[i]["price"] * df.rows[i]["qty"])
            ELSE df.rows[i][c]]]]

render(df, view, term) ==
    CASE view = "Inventory" ->
            LET fl == filter_logic(df, term)
            IN  [inventory |-> df, df_display |-> fl.df, render_error |-> fl.raised]
      [] view = "Analytics" ->
            [inventory |-> IF df.rows # <<>> THEN with_item_value(df) ELSE df,
             df_display |-> NoFrame, render_error |-> FALSE]
      [] OTHER ->
            [inventory |-> df, df_display |-> NoFrame, render_error |-> FALSE]

\* the script runs to its end: the session frame and what the view shows
Rendered(df, view, term) ==
    LET r == render(df, view, term)
    IN  /\ inventory' = r.inventory
        /\ df_display' = r.df_display
        /\ render_error' = r.render_error

----------------------------------------------------------------------------
(* Handlers *)

Views == {"Inventory", "Analytics", "Settings"}

set_view(view) == view

\* add_item_callback appending the new row instead of prepending it
add_item_callback_appends(df, f, t, new_name, new_cat, new_price, new_qty) ==
    IF new_name = <<>>
    THEN [inventory |-> df, file |-> f, message |-> "name_required", rerun |-> FALSE]
    ELSE LET new_row == [cols |-> RecordCols,
                         rows |-> <<Row(t, new_name, new_cat, new_price, new_qty)>>]
             inv == concat(df, new_row)
         IN  [inventory |-> inv, file |-> save_data(inv), message |-> "added",
              rerun |-> TRUE]

\* add_item_callback reporting the empty name but going on to add the record
add_item_callback_no_return(df, f, t, new_name, new_cat, new_price, new_qty) ==
    LET new_row == [cols |-> RecordCols,
                    rows |-> <<Row(t, new_name, new_cat, new_price, new_qty)>>]
        inv == concat(new_row, df)
    IN  [inventory |-> inv, file |-> save_data(inv),
         message |-> IF new_name = <<>> THEN "name_required" ELSE "added",
         rerun |-> new_name # <<>>]

add_item_callback(df, f, t, new_name, new_cat, new_price, new_qty) ==
    IF new_name = <<>>
    THEN [inventory |-> df, file |-> f, message |-> "name_required", rerun |-> FALSE]
    ELSE LET new_row == [cols |-> RecordCols,
                         rows |-> <<Row(t, new_name, new_cat, new_price, new_qty)>>]
             inv == concat(new_row, df)
         IN  [inventory |-> inv, file |-> save_data(inv), message |-> "added",
              rerun |-> TRUE]

RECURSIVE RowsWithout(_, _)
\* df[df['id'] != item_id]
RowsWithout(rows, item_id) ==
    IF rows = <<>> THEN <<>>
    ELSE IF Head(rows)["id"] # item_id
    THEN <<Head(rows)>> \o RowsWithout(Tail(rows), item_id)
    ELSE RowsWithout(Tail(rows), item_id)

delete_item_callback(df, item_id) ==
    LET inv == [cols |-> df.cols, rows |-> RowsWithout(df.rows, item_id)]
    IN  [inventory |-> inv, file |-> save_data(inv), message |-> "deleted"]

\* lines 438-444
purge_all_data ==
    [inventory |-> EmptyFrame, file |-> save_data(EmptyFrame), message |-> "purged"]

----------------------------------------------------------------------------
(* Inputs *)

\* what the add form can submit: text_input, selectbox, two number_inputs
FormNames == {<<>>, <<"g", "P">>}
FormCategories == {GPU}
FormPrices == {25}          \* 2.5
FormQtys == {3}

\* the backing file the process finds when it starts
StartFiles ==
    {Absent,
     JsonArray(<<>>),
     JsonArray(<<[id |-> T0, name |-> <<"g">>, category |-> CPU,
                  price |-> Num(7 * Scale), qty |-> Num(2 * Scale)]>>)}

----------------------------------------------------------------------------
(* The session *)

Running == current_view # "unset"

Init ==
    /\ file \in StartFiles
    /\ inventory = NoFrame
    /\ current_view = "unset"
    /\ show_add_item_dialog = "unset"
    /\ now = T0
    /\ message = "none"
    /\ search_term = <<>>
    /\ df_display = NoFrame
    /\ render_error = FALSE

\* lines 49-52, first run of the script in a session
StartSession ==
    /\ ~Running
    /\ LET l == load_data(file)
       IN  /\ message' = IF l.error THEN "load_error" ELSE "none"
           /\ Rendered(l.df, "Inventory", <<>>)
    /\ current_view' = "Inventory"
    /\ search_term' = <<>>
    /\ UNCHANGED <<file, show_add_item_dialog, now>>

\* the session ends; st.session_state is gone, the file stays
EndSession ==
    /\ Running
    /\ inventory' = NoFrame
    /\ current_view' = "unset"
    /\ show_add_item_dialog' = "unset"
    /\ message' = "none"
    /\ search_term' = <<>>
    /\ df_display' = NoFrame
    /\ render_error' = FALSE
    /\ UNCHANGED <<file, now>>

\* lines 233-249
nav_button(view) ==
    /\ Running
    /\ current_view' = set_view(view)
    /\ search_term' = IF view = "Inventory" /\ current_view = "Inventory"
                      THEN search_term ELSE <<>>
    /\ Rendered(inventory, current_view', search_term')
    /\ message' = "none"
    /\ UNCHANGED <<file, show_add_item_dialog, now>>

\* lines 255-257
sidebar_add_item ==
    /\ Running
    /\ show_add_item_dialog' = "True"
    /\ Rendered(inventory, current_view, search_term)
    /\ message' = "none"
    /\ UNCHANGED <<file, current_view, now, search_term>>

\* lines 276-282: ADD TO VAULT
add_item_form(name, category, price, qty) ==
    /\ Running
    /\ show_add_item_dialog = "True"
    /\ Len(inventory.rows) < MaxRows
    /\ LET a == add_item_callback(inventory, file, now, name, category, price, qty)
       IN  /\ file' = a.file
           /\ message' = a.message
           /\ show_add_item_dialog' = IF a.rerun THEN show_add_item_dialog ELSE "False"
           /\ Rendered(a.inventory, current_view, search_term)
    /\ UNCHANGED <<current_view, now, search_term>>

\* lines 285-287
dialog_cancel ==
    /\ Running
    /\ show_add_item_dialog = "True"
    /\ show_add_item_dialog' = "False"
    /\ Rendered(inventory, current_view, search_term)
    /\ message' = "none"
    /\ UNCHANGED <<file, current_view, now, search_term>>

\* lines 335-336: the ids of the cards of the grid
DisplayedIds == {df_display.rows[i]["id"] : i \in 1..Len(df_display.rows)}

\* lines 367-368: DELETE on a card of the grid
delete_button(item_id) ==
    /\ Running
    /\ current_view = "Inventory"
    /\ ~render_error
    /\ item_id \in DisplayedIds
    /\ LET d == delete_item_callback(inventory, item_id)
       IN  /\ file' = d.file
           /\ message' = d.message
           /\ Rendered(d.inventory, current_view, search_term)
    /\ UNCHANGED <<current_view, show_add_item_dialog, now, search_term>>

\* lines 438-444: PURGE ALL DATA
purge_button ==
    /\ Running
    /\ current_view = "Settings"
    /\ file' = purge_all_data.file
    /\ message' = purge_all_data.message
    /\ Rendered(purge_all_data.inventory, current_view, search_term)
    /\ UNCHANGED <<current_view, show_add_item_dialog, now, search_term>>

\* a millisecond passes
Tick ==
    /\ now < T0 + MaxTicks
    /\ now' = now + 1
    /\ UNCHANGED <<file, inventory, current_view, show_add_item_dialog, message,
                   search_term, df_display, render_error>>

Next ==
    \/ StartSession
    \/ EndSession
    \/ \E view \in Views : nav_button(view)
    \/ sidebar_add_item
    \/ \E name \in FormNames, category \in FormCategories,
          price \in FormPrices, qty \in FormQtys :
            add_item_form(name, category, price, qty)
    \/ dialog_cancel
    \/ \E item_id \in DisplayedIds : delete_button(item_id)
    \/ purge_button
    \/ Tick

Spec == Init /\ [][Next]_vars

----------------------------------------------------------------------------
(* Loading: the process starts on any backing file *)

\* JSON values a price or a qty can have in a file written outside the app:
\* -2.7, 3.5, "1.5", a string that is no number, null
JsonNumerics == {Num(-27), Num(35), NumStr(15), BadStr, NaN}

\* the key sets of an object: price and qty each present or missing
ObjKeySets == {RecordCols \ m : m \in SUBSET {"price", "qty"}}

FileObjs ==
    {[c \in ks |-> CASE c = "id" -> 0
                     [] c = "name" -> <<"g">>
                     [] c = "category" -> CPU
                     [] c = "price" -> p
                     [] c = "qty" -> q] :
        ks \in ObjKeySets, p \in JsonNumerics, q \in JsonNumerics}

\* objects numbered by their place, so that ids differ
Numbered(objs) ==
    [i \in 1..Len(objs) |-> [c \in DOMAIN objs[i] |-> IF c = "id" THEN i ELSE objs[i][c]]]

ObjLists == UNION {{Numbered(s) : s \in [1..k -> FileObjs]} : k \in 0..MaxFileObjs}

LoadFiles ==
    {Absent, Invalid}
    \cup {JsonArray(s) : s \in ObjLists}
    \cup {JsonColumns(s) : s \in {l \in ObjLists :
                                    \A i \in 1..Len(l) : DOMAIN l[i] = DOMAIN l[1]}}

InitLoad ==
    /\ file \in LoadFiles
    /\ inventory = NoFrame
    /\ current_view = "unset"
    /\ show_add_item_dialog = "unset"
    /\ now = T0
    /\ message = "none"
    /\ search_term = <<>>
    /\ df_display = NoFrame
    /\ render_error = FALSE

NextLoad == StartSession \/ EndSession

SpecLoad == InitLoad /\ [][NextLoad]_vars

----------------------------------------------------------------------------
(* Searching: the Inventory view on a loaded store *)

SearchTerms == UNION {[1..k -> SearchAlphabet] : k \in 0..MaxQueryLen}

FilterFiles ==
    {Absent,
     JsonArray(<<>>),
     JsonArray(<<[id |-> 1, name |-> <<"g", ".", "P">>, category |-> GPU,
                  price |-> Num(7 * Scale), qty |-> Num(2 * Scale)],
                 [id |-> 2, name |-> <<"P", "g", "*">>, category |-> Other,
                  price |-> Num(7 * Scale), qty |-> Num(2 * Scale)],
                 [id |-> 3, name |-> <<"p", "(", "[">>, category |-> CPU,
                  price |-> Num(7 * Scale), qty |-> Num(2 * Scale)]>>)}

\* line 300: the user types a search term; the script reruns
search(term) ==
    /\ Running
    /\ current_view = "Inventory"
    /\ search_term' = term
    /\ Rendered(inventory, current_view, term)
    /\ message' = "none"
    /\ UNCHANGED <<file, current_view, show_add_item_dialog, now>>

InitFilter ==
    /\ file \in FilterFiles
    /\ inventory = NoFrame
    /\ current_view = "unset"
    /\ show_add_item_dialog = "unset"
    /\ now = T0
    /\ message = "none"
    /\ search_term = <<>>
    /\ df_display = NoFrame
    /\ render_error = FALSE

NextFilter == StartSession \/ \E term \in SearchTerms : search(term)

SpecFilter == InitFilter /\ [][NextFilter]_vars

----------------------------------------------------------------------------
(* Claims *)

\* C1: no two records of the in-memory store have the same id, whatever the
\* adds, deletes and purges were and whatever the clock returned for the adds.
C1_UniqueIds ==
    \A i, j \in 1..Len(inventory.rows) :
        i # j => inventory.rows[i]["id"] # inventory.rows[j]["id"]

\* C2: for the session's store S and every record r with a non-empty name,
\* delete(add(S, r), r.id) leaves the store equal to S and the backing file
\* equal to what save(S) writes.
C2_AddThenDeleteIsNoOp ==
    Running =>
        \A name \in FormNames \ {<<>>}, category \in FormCategories,
           price \in FormPrices, qty \in FormQtys :
            LET a == add_item_callback(inventory, file, now, name, category, price, qty)
                d == delete_item_callback(a.inventory, now)
            IN  /\ d.inventory = inventory
                /\ d.file = save_data(inventory)

\* C3: after purge the backing file exists and holds the empty array, and a
\* load of it returns the empty store, not the four default records; a
\* session started on a file holding the empty array has the empty store.
C3_PurgeThenLoadIsEmpty ==
    /\ message = "purged" =>
          /\ file = JsonArray(<<>>)
          /\ load_data(file).df = EmptyFrame
    /\ (message = "load_error" /\ file = JsonArray(<<>>)) =>
          /\ inventory = EmptyFrame
          /\ inventory.rows # default_data

\* C3 witness: purge has just run, in a session that began with the defaults
\* or with a stored record, and the file it wrote exists.
C3_Witness == message = "purged" /\ inventory.rows = <<>> /\ file.kind = "list"

\* C4: every object the app has written to the backing file has exactly the
\* keys id, name, category, price and qty, whatever views were rendered.
C4_PersistedKeys ==
    message \in {"added", "deleted", "purged"} =>
        \A i \in 1..Len(file.objs) : DOMAIN file.objs[i] = RecordCols

\* C5: an add with a non-empty name followed by load() yields a store whose
\* first record equals the added record (id, name, category, price, qty), the
\* previously stored records following it in their previous order.
C5_AddThenLoad ==
    [][\A name \in FormNames \ {<<>>}, category \in FormCategories,
          price \in FormPrices, qty \in FormQtys :
          add_item_form(name, category, price, qty) =>
            LET l == load_data(file')
            IN  /\ ~l.error
                /\ Len(l.df.rows) = Len(inventory.rows) + 1
                /\ \A c \in RecordCols :
                      l.df.rows[1][c] = Row(now, name, category, price, qty)[c]
                /\ \A i \in 1..Len(inventory.rows) : \A c \in RecordCols :
                      l.df.rows[i + 1][c] = inventory.rows[i][c]]_vars

\* C5 witness: a record has just been added in front of stored records.
C5_Witness == message = "added" /\ Len(inventory.rows) >= 2

\* C6: an add whose name is empty shows the error and leaves the in-memory
\* store and the backing file exactly as they were.
C6_EmptyNameRejected ==
    [][\A category \in FormCategories, price \in FormPrices, qty \in FormQtys :
          add_item_form(<<>>, category, price, qty) =>
            /\ message' = "name_required"
            /\ inventory' = inventory
            /\ file' = file]_vars

\* C6 witness: the form was submitted with an empty name on a store with records.
C6_Witness == message = "name_required" /\ inventory.rows # <<>>

\* C7 as claimed: every record of a store that load() returned has a price
\* >= 0 and a qty >= 0.
C7_LoadedNonNegative ==
    (Running /\ file.kind # "absent") =>
        \A i \in 1..Len(inventory.rows) :
            inventory.rows[i]["price"] >= 0 /\ inventory.rows[i]["qty"] >= 0

\* the file's value v truncated toward zero is the integer n
TruncatesTo(v, n) ==
    IF v >= 0 THEN n * Scale <= v /\ v < (n + 1) * Scale
    ELSE v <= n * Scale /\ (n - 1) * Scale < v

Parsable(obj, key) == key \in DOMAIN obj /\ obj[key].t \in {"num", "numstr"}

\* C7 amended: load() returns one record per object of the file; a price that
\* is a number (or a string spelling one) is kept as it is, negative values
\* included, and any other price is 0.0; a qty that is a number is truncated
\* toward zero, negative values included, and any other qty is 0.
C7_LoadedNumeric ==
    (Running /\ file.kind # "absent" /\ message # "load_error") =>
        /\ Len(inventory.rows) = Len(file.objs)
        /\ \A i \in 1..Len(file.objs) :
              LET obj == file.objs[i]
                  r == inventory.rows[i]
              IN  /\ r["price"] = IF Parsable(obj, "price") THEN obj["price"].v ELSE 0
                  /\ IF Parsable(obj, "qty")
                     THEN TruncatesTo(obj["qty"].v, r["qty"])
                     ELSE r["qty"] = 0

\* C7 witness: a loaded store with a negative price and a negative qty.
C7_Witness ==
    /\ Running
    /\ \E i \in 1..Len(inventory.rows) :
          inventory.rows[i]["price"] < 0 /\ inventory.rows[i]["qty"] < 0

LiteralContains(text, q) ==
    \E s \in 1..(Len(text) - Len(q) + 1) :
        \A k \in 1..Len(q) : Lower(text[s + k - 1]) = Lower(q[k])

RECURSIVE LiteralSelect(_, _)
LiteralSelect(rows, q) ==
    IF rows = <<>> THEN <<>>
    ELSE IF LiteralContains(Head(rows)["name"], q)
            \/ LiteralContains(Head(rows)["category"], q)
    THEN <<Head(rows)>> \o LiteralSelect(Tail(rows), q)
    ELSE LiteralSelect(Tail(rows), q)

\* C9: the Inventory view shows, in store order, exactly the records whose
\* name or category contains the search term as a case-insensitive literal
\* substring, also when the term holds '.', '*', '(' or '['.
C9_FilterIsLiteralSubstring ==
    (Running /\ current_view = "Inventory") =>
        /\ ~render_error
        /\ df_display.rows = LiteralSelect(inventory.rows, search_term)

\* C10: once the add form has been submitted, accepted or rejected, the next
\* render pass starts with show_add_item_dialog False.
C10_DialogClosedAfterSubmit ==
    message \in {"added", "name_required"} => show_add_item_dialog = "False"

====
